---- MODULE Spec2Model ----
(***************************************************************************)
(* Model of src/src/crypto_hd_key.rs: the CryptoHDKey entity, its CBOR     *)
(* encoder (to_cbor / to_bytes), its CBOR decoder (from_cbor / from_bytes) *)
(* and the BIP-32 serializer (get_bip32_key).                              *)
(*                                                                         *)
(* Representation choices                                                  *)
(*   Option<T>      a tuple of length 0 (None) or 1 (Some(x)).             *)
(*   Bytes          a sequence of numbers in 0..255.                       *)
(*   serde Value    a record [t, v]; t names the variant.                  *)
(*   wide integers  u32 and the i128 of Value::Integer are held as a pair  *)
(*                  <<hi, lo>> standing for hi * 2^16 + lo, 0 <= lo < 2^16,*)
(*                  because the model checker's integers are 32 bits wide. *)
(*                  A u32 has 0 <= hi < 2^16; a wire integer has any hi.   *)
(*   Result<T, E>   a record [kind, v] with kind "ok" or "err"; a panic    *)
(*                  (unwrap on None) is the result kind "panic".           *)
(***************************************************************************)
EXTENDS Integers, Sequences, FiniteSets, TLC

VARIABLES hdkey, src, arg, op, ret

vars == <<hdkey, src, arg, op, ret>>

(***************************************************************************)
(* Bounds of the model.                                                    *)
(***************************************************************************)
\* longest derivation path drawn for origin
MaxPathLen == 2
\* most optional keys (2, 5..10) present at once in a received map
MaxOptKeys == 2

(***************************************************************************)
(* Option and small helpers.                                               *)
(***************************************************************************)
None == <<>>

Some(x) == <<x>>

IsSome(o) == o # <<>>

UnwrapOr(o, d) == IF o = <<>> THEN d ELSE o[1]

Zeros(n) == [i \in 1..n |-> 0]

Limb == 2^16

HalfLimb == 2^15

Byte == 2^8

(***************************************************************************)
(* Map keys of the encoding (lines 11-20).                                 *)
(***************************************************************************)
IS_MASTER == 1

IS_PRIVATE == 2

KEY_DATA == 3

CHAIN_CODE == 4

USE_INFO == 5

ORIGIN == 6

CHILDREN == 7

PARENT_FINGERPRINT == 8

NAME == 9

NOTE == 10

(***************************************************************************)
(* serde_cbor::Value.                                                      *)
(***************************************************************************)
VBool(b) == [t |-> "bool", v |-> b]

VBytes(s) == [t |-> "bytes", v |-> s]

VInteger(hi, lo) == [t |-> "int", v |-> <<hi, lo>>]

VText(s) == [t |-> "text", v |-> s]

VTag(n, c) == [t |-> "tag", v |-> <<n, c>>]

VArray(s) == [t |-> "array", v |-> s]

VMap(m) == [t |-> "map", v |-> m]

EmptyMap == <<>>

\* BTreeMap::insert: a later insert under the same key replaces the entry
Insert(m, k, x) == [j \in (DOMAIN m) \cup {k} |-> IF j = k THEN x ELSE m[j]]

HasKey(m, k) == k \in DOMAIN m

(***************************************************************************)
(* Results.                                                                *)
(***************************************************************************)
Ok(x) == [kind |-> "ok", v |-> x]

Err(e) == [kind |-> "err", v |-> e]

Panic == [kind |-> "panic", v |-> <<>>]

NoRet == [kind |-> "none", v |-> <<>>]

Mismatch(field) == [error |-> "unexpected value", field |-> field]

Missing(field) == [error |-> "required", field |-> field]

ParseError == [error |-> "parse", field |-> "cbor"]

CollabError(who) == [error |-> "collaborator", field |-> who]

(***************************************************************************)
(* u32 <-> bytes (big endian), on the two-limb representation.             *)
(***************************************************************************)
\* u32::from_be_bytes
U32FromBeBytes(b) == <<b[1] * Byte + b[2], b[3] * Byte + b[4]>>

\* u32::to_be_bytes
U32ToBeBytes(u) == <<u[1] \div Byte, u[1] % Byte, u[2] \div Byte, u[2] % Byte>>

\* a conversion that saturates instead of wrapping (u32::try_from with the
\* bounds as fallback)
AsU32Saturating(n) ==
    IF n[1] < 0 THEN <<0, 0>>
    ELSE IF n[1] >= Limb THEN <<Limb - 1, Limb - 1>>
    ELSE n

\* `x as u32` on an i128: keeps the low 32 bits
AsU32(n) == <<n[1] % Limb, n[2]>>

\* `x as u8` on a usize
AsU8(n) == n % Byte

(***************************************************************************)
(* Collaborators: crypto_key_path and crypto_coin_info.  Their sources are *)
(* other files of the crate; they are modelled from the collaborator       *)
(* contract (a registry tag, an encoder to a map, a decoder that returns   *)
(* the entity or a failure) and from the wire layout the test vector of    *)
(* lines 375 and 386 shows:                                                *)
(*   05 D90131 A1 02 01               coin info, tag 305, {2: network}     *)
(*   06 D90130 A1 01 8A 182C F5 ...   key path, tag 304,                   *)
(*                                    {1: [index, hardened, ...]}          *)
(***************************************************************************)
CoinInfoTag == 305

KeyPathTag == 304

RawIndexes == {0, 1}

PathComponents == [index : {None} \cup {Some(i) : i \in RawIndexes}, hardened : BOOLEAN]

KeyPath(components) == [components |-> components]

\* 44'/1'/1'/0/1, the path of lines 358-364
TestPath == <<[index |-> Some(44), hardened |-> TRUE], [index |-> Some(1), hardened |-> TRUE], [index |-> Some(1), hardened |-> TRUE], [index |-> Some(0), hardened |-> FALSE], [index |-> Some(1), hardened |-> FALSE]>>

\* the paths drawn: the empty one, and every component after a prefix of the
\* test path, up to MaxPathLen components
KeyPaths ==
    {KeyPath(<<>>)} \cup
    {KeyPath(Append(SubSeq(TestPath, 1, n - 1), c)) : n \in 1..MaxPathLen, c \in PathComponents}

\* PathComponent::get_canonical_index: raw index, with the hardened bit
\* 0x80000000 set when hardened; None for a component without an index
GetCanonicalIndex(c) ==
    IF c.index = None THEN None
    ELSE Some(<<IF c.hardened THEN HalfLimb ELSE 0, c.index[1]>>)

KeyPathToCbor(p) ==
    LET n == Len(p.components)
        flat == [j \in 1..(2 * n) |->
                    IF j % 2 = 1
                    THEN LET c == p.components[(j + 1) \div 2]
                         IN IF c.index = None THEN VArray(<<>>)
                            ELSE VInteger(0, c.index[1])
                    ELSE VBool(p.components[j \div 2].hardened)]
    IN VMap(Insert(EmptyMap, 1, VArray(flat)))

KeyPathFromCbor(c) ==
    IF c.t # "map" THEN Err(CollabError("crypto-keypath"))
    ELSE IF ~HasKey(c.v, 1) THEN Err(CollabError("crypto-keypath"))
    ELSE LET a == c.v[1] IN
         IF a.t # "array" THEN Err(CollabError("crypto-keypath"))
         ELSE IF Len(a.v) % 2 # 0 THEN Err(CollabError("crypto-keypath"))
         ELSE IF \E j \in 1..Len(a.v) :
                    IF j % 2 = 1
                    THEN ~(\/ a.v[j].t = "array"
                           \/ (a.v[j].t = "int" /\ a.v[j].v[1] = 0))
                    ELSE a.v[j].t # "bool"
              THEN Err(CollabError("crypto-keypath"))
         ELSE Ok(KeyPath([i \in 1..(Len(a.v) \div 2) |->
                    [index |-> IF a.v[2 * i - 1].t = "int"
                               THEN Some(a.v[2 * i - 1].v[2]) ELSE None,
                     hardened |-> a.v[2 * i].v]]))

CoinInfo(coin_type, network) == [coin_type |-> coin_type, network |-> network]

\* CryptoCoinInfo::new(None, Some(Network::TestNet)) of line 356
TestNetCoinInfo == CoinInfo(None, Some(1))

CoinInfos == {TestNetCoinInfo}

\* further coin infos: main-net bitcoin, and another coin type
OtherCoinInfos == {CoinInfo(Some(0), Some(0)), CoinInfo(Some(60), None)}

CoinInfoToCbor(u) ==
    LET m1 == IF IsSome(u.coin_type)
              THEN Insert(EmptyMap, 1, VInteger(0, u.coin_type[1])) ELSE EmptyMap
        m2 == IF IsSome(u.network)
              THEN Insert(m1, 2, VInteger(0, u.network[1])) ELSE m1
    IN VMap(m2)

CoinInfoFromCbor(c) ==
    IF c.t # "map" THEN Err(CollabError("crypto-coin-info"))
    ELSE IF \E k \in (DOMAIN c.v) \cap {1, 2} : c.v[k].t # "int"
         THEN Err(CollabError("crypto-coin-info"))
    ELSE Ok(CoinInfo(IF HasKey(c.v, 1) THEN Some(c.v[1].v[2]) ELSE None,
                     IF HasKey(c.v, 2) THEN Some(c.v[2].v[2]) ELSE None))

(***************************************************************************)
(* The entity (lines 22-34), its constructors and accessors.               *)
(***************************************************************************)
CryptoHDKey(is_master, is_private_key, key, chain_code, use_info, origin, children, parent_fingerprint, name, note) ==
    [is_master |-> is_master, is_private_key |-> is_private_key, key |-> key,
     chain_code |-> chain_code, use_info |-> use_info, origin |-> origin,
     children |-> children, parent_fingerprint |-> parent_fingerprint,
     name |-> name, note |-> note]

\* #[derive(Default)]: every field None
Default == CryptoHDKey(None, None, None, None, None, None, None, None, None, None)

new_master_key(key, chain_code) ==
    [Default EXCEPT !.is_master = Some(TRUE), !.key = Some(key),
                    !.chain_code = Some(chain_code)]

new_extended_key(is_private_key, key, chain_code, use_info, origin, children, parent_fingerprint, name, note) ==
    CryptoHDKey(Some(FALSE), is_private_key, Some(key), chain_code, use_info,
                origin, children, parent_fingerprint, name, note)

is_master(e) == UnwrapOr(e.is_master, FALSE)

is_private_key(e) == UnwrapOr(e.is_private_key, FALSE)

(***************************************************************************)
(* get_bip32_key (lines 97-129).                                           *)
(***************************************************************************)
VersionPrivate == <<4, 136, 173, 228>>

VersionPublic == <<4, 136, 178, 30>>

\* a version that follows the network of use_info (the test-net prefixes
\* 0x04358394 and 0x043587CF)
Bip32VersionByNetwork(e) ==
    LET testnet == IsSome(e.use_info) /\ e.use_info[1].network = Some(1)
        private == is_master(e) \/ is_private_key(e)
    IN IF testnet
       THEN IF private THEN <<4, 53, 131, 148>> ELSE <<4, 53, 135, 207>>
       ELSE IF private THEN VersionPrivate ELSE VersionPublic

\* lines 105, 116-119
Bip32Version(e) ==
    IF is_master(e) THEN VersionPrivate
    ELSE IF is_private_key(e) THEN VersionPrivate ELSE VersionPublic

\* lines 99, 106, 111
Bip32Depth(e) ==
    IF is_master(e) THEN 0
    ELSE IF IsSome(e.origin) THEN AsU8(Len(e.origin[1].components)) ELSE 0

\* lines 100, 107, 112: Vec::last() is None on an empty component list, and
\* the unwrap() of it panics
Bip32Index(e) ==
    IF is_master(e) THEN Ok(<<0, 0>>)
    ELSE IF IsSome(e.origin)
         THEN LET cs == e.origin[1].components IN
              IF Len(cs) = 0 THEN Panic
              ELSE Ok(UnwrapOr(GetCanonicalIndex(cs[Len(cs)]), <<0, 0>>))
         ELSE Ok(<<0, 0>>)

\* line 101
Bip32ParentFingerprint(e) == UnwrapOr(e.parent_fingerprint, <<0, 0, 0, 0>>)

\* line 102
Bip32ChainCode(e) == UnwrapOr(e.chain_code, Zeros(32))

\* line 103
Bip32Key(e) == UnwrapOr(e.key, Zeros(32))

\* lines 121-127; the index is present unless line 112 panicked
Bip32Payload(e) ==
    Bip32Version(e) \o <<Bip32Depth(e)>> \o Bip32ParentFingerprint(e)
        \o U32ToBeBytes(Bip32Index(e).v) \o Bip32ChainCode(e) \o Bip32Key(e)

\* bs58::encode(..).with_check().into_string() is an injective rendering of
\* the payload; the string is held as the payload it renders
Bs58Check(output) == [kind |-> "string", v |-> output]

get_bip32_key(e) ==
    IF Bip32Index(e).kind = "panic" THEN Panic ELSE Bs58Check(Bip32Payload(e))

(***************************************************************************)
(* to_cbor / to_bytes (lines 138-217).                                     *)
(***************************************************************************)
\* a master branch that also writes the name
MasterMapWithName(e) ==
    LET m1 == Insert(EmptyMap, IS_MASTER, VBool(is_master(e)))
        m2 == Insert(m1, KEY_DATA, VBytes(e.key[1]))
        m3 == Insert(m2, CHAIN_CODE, VBytes(e.chain_code[1]))
    IN IF IsSome(e.name) THEN Insert(m3, NAME, VText(e.name[1])) ELSE m3

\* lines 142-144
MasterMap(e) ==
    LET m1 == Insert(EmptyMap, IS_MASTER, VBool(is_master(e)))
        m2 == Insert(m1, KEY_DATA, VBytes(e.key[1]))
    IN Insert(m2, CHAIN_CODE, VBytes(e.chain_code[1]))

\* lines 146-208, one insert per present field in the order of the code
ExtendedMap(e) ==
    LET m1 == IF IsSome(e.is_private_key)
              THEN Insert(EmptyMap, IS_PRIVATE, VBool(e.is_private_key[1]))
              ELSE EmptyMap
        m2 == Insert(m1, KEY_DATA, VBytes(e.key[1]))
        m3 == IF IsSome(e.chain_code)
              THEN Insert(m2, CHAIN_CODE, VBytes(e.chain_code[1])) ELSE m2
        m4 == IF IsSome(e.use_info)
              THEN Insert(m3, USE_INFO, VTag(CoinInfoTag, CoinInfoToCbor(e.use_info[1])))
              ELSE m3
        m5 == IF IsSome(e.origin)
              THEN Insert(m4, ORIGIN, VTag(KeyPathTag, KeyPathToCbor(e.origin[1])))
              ELSE m4
        \* line 182 inserts the children under ORIGIN
        m6 == IF IsSome(e.children)
              THEN Insert(m5, ORIGIN, VTag(KeyPathTag, KeyPathToCbor(e.children[1])))
              ELSE m5
        m7 == IF IsSome(e.parent_fingerprint)
              THEN Insert(m6, PARENT_FINGERPRINT,
                          [t |-> "int", v |-> U32FromBeBytes(e.parent_fingerprint[1])])
              ELSE m6
        m8 == IF IsSome(e.name) THEN Insert(m7, NAME, VText(e.name[1])) ELSE m7
    IN IF IsSome(e.note) THEN Insert(m8, NOTE, VText(e.note[1])) ELSE m8

\* the unwrap() of lines 143, 144 and 150 panics on an absent field
to_cbor(e) ==
    IF is_master(e)
    THEN IF e.key = None \/ e.chain_code = None THEN Panic
         ELSE [kind |-> "value", v |-> VMap(MasterMap(e))]
    ELSE IF e.key = None THEN Panic
         ELSE [kind |-> "value", v |-> VMap(ExtendedMap(e))]

\* serde_cbor::to_vec: a map is written as its entries in ascending key
\* order (BTreeMap iteration), any other value as the one item
ToVec(value) ==
    IF value.t = "map"
    THEN LET D == DOMAIN value.v
             keyAt(i) == CHOOSE k \in D : Cardinality({j \in D : j < k}) = i - 1
         IN [t |-> "entries",
             v |-> [i \in 1..Cardinality(D) |-> <<keyAt(i), value.v[keyAt(i)]>>]]
    ELSE [t |-> "item", v |-> value]

Garbage == [t |-> "garbage", v |-> <<>>]

\* serde_cbor::from_slice
FromSlice(bytes) ==
    IF bytes.t = "garbage" THEN Err(ParseError)
    ELSE IF bytes.t = "item" THEN Ok(bytes.v)
    ELSE Ok(VMap([k \in {bytes.v[i][1] : i \in DOMAIN bytes.v} |->
                    bytes.v[CHOOSE i \in DOMAIN bytes.v : bytes.v[i][1] = k][2]]))

\* lines 213-216
to_bytes(e) ==
    LET value == to_cbor(e)
    IN IF value.kind = "panic" THEN Panic
       ELSE [kind |-> "bytes", v |-> ToVec(value.v)]

(***************************************************************************)
(* from_cbor / from_bytes (lines 219-330).                                 *)
(***************************************************************************)
\* the pattern of lines 249-253: Some(Value::T(x)) => Some(x),
\* Some(_) => return Err(..), None => None
Typed(map, k, ty, field) ==
    IF ~HasKey(map, k) THEN Ok(None)
    ELSE IF map[k].t = ty THEN Ok(Some(map[k].v))
    ELSE Err(Mismatch(field))

\* the pattern of lines 236-240: as Typed, but None => return Err(..)
Required(map, k, ty, field) ==
    IF ~HasKey(map, k) THEN Err(Missing(field)) ELSE Typed(map, k, ty, field)

\* lines 264-276: a tagged value whose tag is the coin-info tag is handed to
\* CryptoCoinInfo::from_cbor, whose Err is returned as it is
TaggedCoinInfo(map, k, field) ==
    IF ~HasKey(map, k) THEN Ok(None)
    ELSE IF map[k].t # "tag" THEN Err(Mismatch(field))
    ELSE IF map[k].v[1] # CoinInfoTag THEN Err(Mismatch(field))
    ELSE LET r == CoinInfoFromCbor(map[k].v[2])
         IN IF r.kind = "ok" THEN Ok(Some(r.v)) ELSE r

\* TaggedKeyPath without the comparison of the tag
TaggedKeyPathAnyTag(map, k, field) ==
    IF ~HasKey(map, k) THEN Ok(None)
    ELSE IF map[k].t # "tag" THEN Err(Mismatch(field))
    ELSE LET r == KeyPathFromCbor(map[k].v[2])
         IN IF r.kind = "ok" THEN Ok(Some(r.v)) ELSE r

\* lines 277-289 and 290-302: the same with the key-path tag and
\* CryptoKeyPath::from_cbor
TaggedKeyPath(map, k, field) ==
    IF ~HasKey(map, k) THEN Ok(None)
    ELSE IF map[k].t # "tag" THEN Err(Mismatch(field))
    ELSE IF map[k].v[1] # KeyPathTag THEN Err(Mismatch(field))
    ELSE LET r == KeyPathFromCbor(map[k].v[2])
         IN IF r.kind = "ok" THEN Ok(Some(r.v)) ELSE r

\* lines 303-307
ParentFingerprint(map) ==
    LET r == Typed(map, PARENT_FINGERPRINT, "int", "parent_fingerprint")
    IN IF r.kind = "ok" /\ IsSome(r.v)
       THEN Ok(Some(U32ToBeBytes(AsU32(r.v[1])))) ELSE r

\* the first Err among the results, in their order (the early returns)
FirstErr(rs) == rs[CHOOSE i \in DOMAIN rs :
                     /\ rs[i].kind = "err"
                     /\ \A j \in 1..(i - 1) : rs[j].kind # "err"]

\* FromCborMaster with the chain code optional, as in the extended branch
FromCborMasterOptionalChainCode(map) ==
    LET key == Required(map, KEY_DATA, "bytes", "key_data")
        chain_code == Typed(map, CHAIN_CODE, "bytes", "chain_code")
        rs == <<key, chain_code>>
    IN IF \E i \in DOMAIN rs : rs[i].kind = "err" THEN FirstErr(rs)
       ELSE Ok([Default EXCEPT !.is_master = Some(TRUE), !.key = key.v,
                               !.chain_code = chain_code.v])

\* FromCborMaster reading the name as the extended branch does
FromCborMasterKeepsName(map) ==
    LET key == Required(map, KEY_DATA, "bytes", "key_data")
        chain_code == Required(map, CHAIN_CODE, "bytes", "chain_code")
        name == Typed(map, NAME, "text", "name")
        rs == <<key, chain_code, name>>
    IN IF \E i \in DOMAIN rs : rs[i].kind = "err" THEN FirstErr(rs)
       ELSE Ok([Default EXCEPT !.is_master = Some(TRUE), !.key = key.v,
                               !.chain_code = chain_code.v, !.name = name.v])

\* lines 235-247
FromCborMaster(map) ==
    LET key == Required(map, KEY_DATA, "bytes", "key_data")
        chain_code == Required(map, CHAIN_CODE, "bytes", "chain_code")
        rs == <<key, chain_code>>
    IN IF \E i \in DOMAIN rs : rs[i].kind = "err" THEN FirstErr(rs)
       ELSE Ok([Default EXCEPT !.is_master = Some(TRUE), !.key = key.v,
                               !.chain_code = chain_code.v])

\* lines 248-319
FromCborExtended(map, _is_master) ==
    LET isPrivateKey == Typed(map, IS_PRIVATE, "bool", "is_private_key")
        key == Required(map, KEY_DATA, "bytes", "key_data")
        chain_code == Typed(map, CHAIN_CODE, "bytes", "chain_code")
        use_info == TaggedCoinInfo(map, USE_INFO, "use_info")
        origin == TaggedKeyPath(map, ORIGIN, "origin")
        children == TaggedKeyPath(map, CHILDREN, "children")
        parent_fingerprint == ParentFingerprint(map)
        name == Typed(map, NAME, "text", "name")
        note == Typed(map, NOTE, "text", "note")
        rs == <<isPrivateKey, key, chain_code, use_info, origin, children,
                parent_fingerprint, name, note>>
    IN IF \E i \in DOMAIN rs : rs[i].kind = "err" THEN FirstErr(rs)
       ELSE Ok(CryptoHDKey(_is_master, isPrivateKey.v, key.v, chain_code.v,
                           use_info.v, origin.v, children.v,
                           parent_fingerprint.v, name.v, note.v))

\* lines 225-233: from_value::<bool> of the value under key 1
DecodeIsMaster(map) ==
    IF ~HasKey(map, IS_MASTER) THEN Ok(None)
    ELSE IF map[IS_MASTER].t = "bool" THEN Ok(Some(map[IS_MASTER].v))
    ELSE Err(ParseError)

\* lines 220-321
from_cbor(cbor) ==
    IF cbor.t # "map" THEN Err(ParseError)
    ELSE LET m == DecodeIsMaster(cbor.v) IN
         IF m.kind = "err" THEN m
         ELSE IF m.v = Some(TRUE) THEN FromCborMaster(cbor.v)
         ELSE FromCborExtended(cbor.v, m.v)

\* lines 323-329
from_bytes(bytes) ==
    LET value == FromSlice(bytes)
    IN IF value.kind = "err" THEN value ELSE from_cbor(value.v)

(***************************************************************************)
(* The values the operations are applied to.                               *)
(***************************************************************************)
\* a 33-byte compressed public key (first byte 02, as in line 354) and a
\* 32-byte one: the constructors do not validate the length
Key33 == [i \in 1..33 |-> IF i = 1 THEN 2 ELSE 111]

Key32 == [i \in 1..32 |-> 7]

KeyArgs == {Key33, Key32}

ChainCode32 == [i \in 1..32 |-> 206]

ChainCodeArgs == {ChainCode32}

\* the fingerprint of line 369, and the largest one
Fingerprints == {<<233, 24, 28, 243>>, <<255, 255, 255, 255>>}

ChildrenArgs == {KeyPath(<<[index |-> None, hardened |-> FALSE]>>)}

Names == {"name"}

Notes == {"note"}

Opt(S) == {None} \cup {Some(x) : x \in S}

\* every value of the struct (lines 23-34) over the sets above
AnyCryptoHDKey ==
    {CryptoHDKey(m, p, k, c, u, o, ch, f, na, no) :
        m \in Opt(BOOLEAN), p \in Opt(BOOLEAN), k \in Opt(KeyArgs),
        c \in Opt(ChainCodeArgs), u \in Opt(CoinInfos), o \in Opt(KeyPaths),
        ch \in Opt(ChildrenArgs), f \in Opt(Fingerprints), na \in Opt(Names),
        no \in Opt(Notes)}

(***************************************************************************)
(* Received maps: under each key, values of the declared type and of       *)
(* others; at most MaxOptKeys of the keys 2, 5..10 at once.                *)
(***************************************************************************)
OptKeys == {IS_PRIVATE, USE_INFO, ORIGIN, CHILDREN, PARENT_FINGERPRINT, NAME, NOTE}

WireKeyPath == KeyPath(<<[index |-> Some(1), hardened |-> TRUE]>>)

Candidates(k) ==
    CASE k = IS_MASTER -> {VBool(TRUE), VBool(FALSE), VInteger(0, 1)}
      [] k = IS_PRIVATE -> {VBool(TRUE), VText("yes")}
      [] k = KEY_DATA -> {VBytes(Key33), VText("key")}
      [] k = CHAIN_CODE -> {VBytes(ChainCode32), VInteger(0, 4)}
      [] k = USE_INFO ->
            {VTag(CoinInfoTag, CoinInfoToCbor(TestNetCoinInfo)),
             VTag(KeyPathTag, CoinInfoToCbor(TestNetCoinInfo)),
             VTag(CoinInfoTag, VText("coin")),
             CoinInfoToCbor(TestNetCoinInfo)}
      [] k \in {ORIGIN, CHILDREN} ->
            {VTag(KeyPathTag, KeyPathToCbor(WireKeyPath)),
             VTag(CoinInfoTag, KeyPathToCbor(WireKeyPath)),
             VTag(KeyPathTag, VMap(Insert(EmptyMap, 1, VArray(<<VBool(TRUE)>>)))),
             KeyPathToCbor(WireKeyPath)}
      [] k = PARENT_FINGERPRINT ->
            \* 0xe9181cf3, the same plus 2^32, -1, and a text
            {VInteger(59672, 7411), VInteger(Limb + 59672, 7411),
             VInteger(-1, Limb - 1), VText("e9181cf3")}
      [] k = NAME -> {VText("name"), VBool(TRUE)}
      [] k = NOTE -> {VText("note"), VBytes(<<1>>)}

RECURSIVE MapsOver(_)
MapsOver(D) ==
    IF D = {} THEN {EmptyMap}
    ELSE LET k == CHOOSE x \in D : TRUE
         IN {Insert(m, k, x) : m \in MapsOver(D \ {k}), x \in Candidates(k)}

\* maps over the keys 1, 3 and 4, and maps over the optional keys
CoreMaps == UNION {MapsOver(D) : D \in SUBSET {IS_MASTER, KEY_DATA, CHAIN_CODE}}

OptMaps == UNION {MapsOver(D) : D \in {X \in SUBSET OptKeys : Cardinality(X) <= MaxOptKeys}}

Merge(a, b) == [k \in (DOMAIN a) \cup (DOMAIN b) |-> IF k \in DOMAIN a THEN a[k] ELSE b[k]]

NotAMap == VText("not a map")

(***************************************************************************)
(* The state machine.  hdkey is the entity at hand (an Option), op the     *)
(* last operation, ret the value it returned (or the value received), arg  *)
(* the Value or bytes the last decode was given, and src the entity whose  *)
(* encoding that was (None when the input was received).                   *)
(***************************************************************************)
Init ==
    /\ hdkey = None
    /\ src = None
    /\ arg = NoRet
    /\ op = "init"
    /\ ret = NoRet

\* the entity is created once: there is no operation that changes one
NewMasterKey ==
    /\ op = "init"
    /\ \E key \in KeyArgs, chain_code \in ChainCodeArgs :
          hdkey' = Some(new_master_key(key, chain_code))
    /\ src' = None
    /\ arg' = NoRet
    /\ op' = "new_master_key"
    /\ ret' = NoRet

NewExtendedKey ==
    /\ op = "init"
    /\ \E p \in Opt(BOOLEAN), key \in KeyArgs, c \in Opt(ChainCodeArgs),
          u \in Opt(CoinInfos), o \in Opt(KeyPaths), ch \in Opt(ChildrenArgs),
          f \in Opt(Fingerprints), na \in Opt(Names), no \in Opt(Notes) :
          hdkey' = Some(new_extended_key(p, key, c, u, o, ch, f, na, no))
    /\ src' = None
    /\ arg' = NoRet
    /\ op' = "new_extended_key"
    /\ ret' = NoRet

\* a Value arrives from a peer: a map, or something that is no map
ReceiveValue ==
    /\ op = "init"
    /\ \/ \E a \in CoreMaps, b \in OptMaps :
             ret' = [kind |-> "value", v |-> VMap(Merge(a, b))]
       \/ ret' = [kind |-> "value", v |-> NotAMap]
    /\ op' = "receive"
    /\ UNCHANGED <<hdkey, src, arg>>

\* bytes arrive from a peer: the encoding of such a value, or no encoding
ReceiveBytes ==
    /\ op = "init"
    /\ \/ \E a \in CoreMaps, b \in OptMaps :
             ret' = [kind |-> "bytes", v |-> ToVec(VMap(Merge(a, b)))]
       \/ ret' = [kind |-> "bytes", v |-> ToVec(NotAMap)]
       \/ ret' = [kind |-> "bytes", v |-> Garbage]
    /\ op' = "receive"
    /\ UNCHANGED <<hdkey, src, arg>>

ToCbor ==
    /\ IsSome(hdkey)
    /\ ret' = to_cbor(hdkey[1])
    /\ op' = "to_cbor"
    /\ src' = None
    /\ arg' = NoRet
    /\ UNCHANGED hdkey

ToBytes ==
    /\ IsSome(hdkey)
    /\ ret' = to_bytes(hdkey[1])
    /\ op' = "to_bytes"
    /\ src' = None
    /\ arg' = NoRet
    /\ UNCHANGED hdkey

GetBip32Key ==
    /\ IsSome(hdkey)
    /\ ret' = get_bip32_key(hdkey[1])
    /\ op' = "get_bip32_key"
    /\ src' = None
    /\ arg' = NoRet
    /\ UNCHANGED hdkey

\* the decoded entity becomes the entity at hand; a failure leaves none
Decoded(r) ==
    /\ ret' = r
    /\ arg' = ret
    /\ src' = IF op \in {"to_cbor", "to_bytes"} THEN hdkey ELSE None
    /\ hdkey' = IF r.kind = "ok" THEN Some(r.v) ELSE None

FromCbor ==
    /\ ret.kind = "value"
    /\ op' = "from_cbor"
    /\ Decoded(from_cbor(ret.v))

FromBytes ==
    /\ ret.kind = "bytes"
    /\ op' = "from_bytes"
    /\ Decoded(from_bytes(ret.v))

Next ==
    \/ NewMasterKey
    \/ NewExtendedKey
    \/ ReceiveValue
    \/ ReceiveBytes
    \/ ToCbor
    \/ ToBytes
    \/ FromCbor
    \/ FromBytes
    \/ GetBip32Key

Spec == Init /\ [][Next]_vars

(***************************************************************************)
(* The same with the derived Default::default() as a third way to make an  *)
(* entity: every field None.                                               *)
(***************************************************************************)
DefaultKey ==
    /\ op = "init"
    /\ hdkey' = Some(Default)
    /\ src' = None
    /\ arg' = NoRet
    /\ op' = "default"
    /\ ret' = NoRet

NextDefault ==
    \/ DefaultKey
    \/ NewMasterKey
    \/ NewExtendedKey
    \/ ReceiveValue
    \/ ReceiveBytes
    \/ ToCbor
    \/ ToBytes
    \/ FromCbor
    \/ FromBytes
    \/ GetBip32Key

SpecDefault == Init /\ [][NextDefault]_vars

(***************************************************************************)
(* The operations as functions of an arbitrary struct value: the encoder   *)
(* and the serializer applied to every value of the type, the ones no      *)
(* constructor builds included (Default::default(), or a struct literal    *)
(* written inside the module, as the tests of lines 332-397 may).          *)
(***************************************************************************)
InitAny ==
    /\ hdkey \in {Some(e) : e \in AnyCryptoHDKey}
    /\ src = None
    /\ arg = NoRet
    /\ op = "struct"
    /\ ret = NoRet

NextAny ==
    \/ ToCbor
    \/ ToBytes
    \/ GetBip32Key

SpecAny == InitAny /\ [][NextAny]_vars

(***************************************************************************)
(* Vocabulary of the properties.                                           *)
(***************************************************************************)
DecodeOps == {"from_cbor", "from_bytes"}

\* the Value the last decode read: arg itself, or what from_slice made of it
DecodeInput == IF arg.kind = "value" THEN Ok(arg.v) ELSE FromSlice(arg.v)

\* the last operation decoded a map
DecodedAMap == op \in DecodeOps /\ DecodeInput.kind = "ok" /\ DecodeInput.v.t = "map"

InputMap == DecodeInput.v.v

MasterInput == DecodedAMap /\ HasKey(InputMap, IS_MASTER) /\ InputMap[IS_MASTER] = VBool(TRUE)

ExtendedInput ==
    /\ DecodedAMap
    /\ HasKey(InputMap, IS_MASTER) => InputMap[IS_MASTER] = VBool(FALSE)

FieldOf(k) ==
    CASE k = IS_PRIVATE -> "is_private_key"
      [] k = KEY_DATA -> "key_data"
      [] k = CHAIN_CODE -> "chain_code"
      [] k = USE_INFO -> "use_info"
      [] k = ORIGIN -> "origin"
      [] k = CHILDREN -> "children"
      [] k = PARENT_FINGERPRINT -> "parent_fingerprint"
      [] k = NAME -> "name"
      [] k = NOTE -> "note"

TypeOf(k) ==
    CASE k \in {IS_PRIVATE} -> "bool"
      [] k \in {KEY_DATA, CHAIN_CODE} -> "bytes"
      [] k \in {USE_INFO, ORIGIN, CHILDREN} -> "tag"
      [] k = PARENT_FINGERPRINT -> "int"
      [] k \in {NAME, NOTE} -> "text"

ExpectedTag(k) == IF k = USE_INFO THEN CoinInfoTag ELSE KeyPathTag

CollaboratorDecode(k, content) ==
    IF k = USE_INFO THEN CoinInfoFromCbor(content) ELSE KeyPathFromCbor(content)

\* what is wrong with the value under key k of map m, as a set of failures
\* (empty when the entry is acceptable or absent)
Offence(m, k) ==
    IF ~HasKey(m, k) THEN {}
    ELSE IF m[k].t # TypeOf(k) THEN {Mismatch(FieldOf(k))}
    ELSE IF TypeOf(k) # "tag" THEN {}
    ELSE IF m[k].v[1] # ExpectedTag(k) THEN {Mismatch(FieldOf(k))}
    ELSE LET r == CollaboratorDecode(k, m[k].v[2])
         IN IF r.kind = "err" THEN {r.v} ELSE {}

Absent(m, k) == IF HasKey(m, k) THEN {} ELSE {Missing(FieldOf(k))}

(***************************************************************************)
(* C4.  Decoder, master branch: a map whose key 1 is boolean true decodes  *)
(* if and only if keys 3 and 4 are present and byte-typed; a failure is a  *)
(* missing-field failure naming an absent one of them or a type-mismatch   *)
(* failure naming a mistyped one; on success every other key is ignored:   *)
(* the entity is master with the key and chain code of keys 3 and 4 and    *)
(* every other field absent.                                               *)
(***************************************************************************)
C4_DecoderMasterBranch ==
    MasterInput =>
        LET m == InputMap
            faults == Absent(m, KEY_DATA) \cup Offence(m, KEY_DATA)
                        \cup Absent(m, CHAIN_CODE) \cup Offence(m, CHAIN_CODE)
        IN /\ ret.kind \in {"ok", "err"}
           /\ ret.kind = "ok" <=> faults = {}
           /\ ret.kind = "err" => ret.v \in faults
           /\ ret.kind = "ok" =>
                ret.v = [Default EXCEPT !.is_master = Some(TRUE),
                                        !.key = Some(m[KEY_DATA].v),
                                        !.chain_code = Some(m[CHAIN_CODE].v)]

\* a master map carrying a name and another optional key was decoded
C4_Witness ==
    /\ MasterInput
    /\ ret.kind = "ok"
    /\ HasKey(InputMap, NAME)
    /\ Cardinality((DOMAIN InputMap) \cap OptKeys) >= 2

(***************************************************************************)
(* C5.  Decoder, extended branch: a map whose key 1 is absent or false     *)
(* decodes if and only if key 3 is present and byte-typed, each present    *)
(* key among 2, 4, 8, 9, 10 has its declared type, and each present key    *)
(* among 5, 6, 7 is tagged with its collaborator's tag and holds content   *)
(* the collaborator decodes; a failure names an offending field, and a     *)
(* collaborator's failure is returned as the collaborator gave it.         *)
(***************************************************************************)
C5_DecoderExtendedBranch ==
    ExtendedInput =>
        LET m == InputMap
            faults == Absent(m, KEY_DATA) \cup UNION {Offence(m, k) : k \in 2..10}
        IN /\ ret.kind \in {"ok", "err"}
           /\ ret.kind = "ok" <=> faults = {}
           /\ ret.kind = "err" => ret.v \in faults

\* a key-path collaborator failure came back from the decode of a map whose
\* other entries are acceptable
C5_Witness ==
    /\ ExtendedInput
    /\ HasKey(InputMap, ORIGIN)
    /\ InputMap[ORIGIN].t = "tag"
    /\ InputMap[ORIGIN].v[1] = KeyPathTag
    /\ ret = KeyPathFromCbor(InputMap[ORIGIN].v[2])
    /\ ret.kind = "err"

(***************************************************************************)
(* C6.  Every entity the constructors and the decoder produce has its key, *)
(* and its chain code when it is master; so encoding never faults, and a   *)
(* decode returns such an entity or a failure.                             *)
(***************************************************************************)
WellFormed(e) == IsSome(e.key) /\ (is_master(e) => IsSome(e.chain_code))

C6_WellFormedEntities ==
    /\ IsSome(hdkey) => WellFormed(hdkey[1])
    /\ IsSome(src) => WellFormed(src[1])
    /\ op \in DecodeOps => ret.kind \in {"ok", "err"}
    /\ (op \in DecodeOps /\ ret.kind = "ok") => (WellFormed(ret.v) /\ hdkey = Some(ret.v))
    /\ op = "to_cbor" => ret.kind = "value"
    /\ op = "to_bytes" => ret.kind = "bytes"

\* an entity decoded from a map without key 1 was encoded again
C6_Witness ==
    /\ op = "to_bytes"
    /\ hdkey[1].is_master = None
    /\ IsSome(hdkey[1].origin)
    /\ ret.kind = "bytes"

(***************************************************************************)
(* C10.  The parent fingerprint on the wire.  The encoder writes the bytes *)
(* b0 b1 b2 b3 under key 8 as the integer b0*2^24 + b1*2^16 + b2*2^8 + b3, *)
(* which lies in 0..2^32-1; the decoder accepts any integer n under key 8, *)
(* with no range check, and yields the big-endian bytes of n mod 2^32; and *)
(* decoding an encoded entity gives back its fingerprint.  (An integer is  *)
(* the pair <<hi, lo>> for hi * 2^16 + lo.)                                *)
(***************************************************************************)
C10_FingerprintConversion ==
    /\ (op = "to_cbor" /\ ret.kind = "value" /\ ~is_master(hdkey[1])
            /\ IsSome(hdkey[1].parent_fingerprint)) =>
          LET b == hdkey[1].parent_fingerprint[1]
          IN /\ HasKey(ret.v.v, PARENT_FINGERPRINT)
             /\ ret.v.v[PARENT_FINGERPRINT].t = "int"
             /\ ret.v.v[PARENT_FINGERPRINT].v = <<b[1] * 256 + b[2], b[3] * 256 + b[4]>>
             /\ \A i \in 1..2 : ret.v.v[PARENT_FINGERPRINT].v[i] \in 0..(Limb - 1)
    /\ (ExtendedInput /\ HasKey(InputMap, PARENT_FINGERPRINT)
            /\ InputMap[PARENT_FINGERPRINT].t = "int") =>
          LET n == InputMap[PARENT_FINGERPRINT].v
          IN /\ ret.kind = "err" => ret.v # Mismatch("parent_fingerprint")
             /\ ret.kind = "ok" =>
                  /\ IsSome(ret.v.parent_fingerprint)
                  /\ LET f == ret.v.parent_fingerprint[1]
                     IN /\ Len(f) = 4
                        /\ \A i \in 1..4 : f[i] \in 0..255
                        /\ \E q \in -2..2 : f[1] * 256 + f[2] + q * Limb = n[1]
                        /\ f[3] * 256 + f[4] = n[2]
    /\ (op \in DecodeOps /\ IsSome(src) /\ ~is_master(src[1])
            /\ IsSome(src[1].parent_fingerprint)) =>
          /\ ret.kind = "ok"
          /\ ret.v.parent_fingerprint = src[1].parent_fingerprint

\* an integer of 2^32 or more under key 8 was decoded to the fingerprint that
\* its in-range residue 0xe9181cf3 stands for
C10_Witness ==
    /\ ExtendedInput
    /\ HasKey(InputMap, PARENT_FINGERPRINT)
    /\ InputMap[PARENT_FINGERPRINT].t = "int"
    /\ InputMap[PARENT_FINGERPRINT].v[1] >= Limb
    /\ ret.kind = "ok"
    /\ ret.v.parent_fingerprint = Some(<<233, 24, 28, 243>>)

(***************************************************************************)
(* C1.  Round trip: from_bytes(to_bytes(E)) of an entity E built by        *)
(* new_extended_key succeeds and returns an entity with the fields of E:   *)
(* the same value where E has one, absent where E has none.                *)
(***************************************************************************)
SameFields(d, e) ==
    /\ is_master(d) = is_master(e)
    /\ d.is_private_key = e.is_private_key
    /\ d.key = e.key
    /\ d.chain_code = e.chain_code
    /\ d.use_info = e.use_info
    /\ d.origin = e.origin
    /\ d.children = e.children
    /\ d.parent_fingerprint = e.parent_fingerprint
    /\ d.name = e.name
    /\ d.note = e.note

C1_RoundTrip ==
    (op = "from_bytes" /\ IsSome(src) /\ src[1].is_master = Some(FALSE)) =>
        /\ ret.kind = "ok"
        /\ SameFields(ret.v, src[1])

(***************************************************************************)
(* C3.  Extended branch: the keys of the map to_cbor returns are 3 and the *)
(* key of each present optional field (is_private_key 2, chain_code 4,     *)
(* use_info 5, origin 6, children 7, parent_fingerprint 8, name 9,         *)
(* note 10); the origin is the value under 6 and the children the value    *)
(* under 7.                                                                *)
(***************************************************************************)
ExpectedKeys(e) ==
    {KEY_DATA}
      \cup (IF IsSome(e.is_private_key) THEN {IS_PRIVATE} ELSE {})
      \cup (IF IsSome(e.chain_code) THEN {CHAIN_CODE} ELSE {})
      \cup (IF IsSome(e.use_info) THEN {USE_INFO} ELSE {})
      \cup (IF IsSome(e.origin) THEN {ORIGIN} ELSE {})
      \cup (IF IsSome(e.children) THEN {CHILDREN} ELSE {})
      \cup (IF IsSome(e.parent_fingerprint) THEN {PARENT_FINGERPRINT} ELSE {})
      \cup (IF IsSome(e.name) THEN {NAME} ELSE {})
      \cup (IF IsSome(e.note) THEN {NOTE} ELSE {})

C3_ExtendedKeyMapping ==
    (op = "to_cbor" /\ ~is_master(hdkey[1]) /\ IsSome(hdkey[1].key)) =>
        /\ ret.kind = "value"
        /\ DOMAIN ret.v.v = ExpectedKeys(hdkey[1])
        /\ IsSome(hdkey[1].origin) =>
              ret.v.v[ORIGIN] = VTag(KeyPathTag, KeyPathToCbor(hdkey[1].origin[1]))
        /\ IsSome(hdkey[1].children) =>
              ret.v.v[CHILDREN] = VTag(KeyPathTag, KeyPathToCbor(hdkey[1].children[1]))

(***************************************************************************)
(* C8.  get_bip32_key returns a string for every entity, and bytes 10..13  *)
(* of its payload, the child index, are 0 for a master key and otherwise   *)
(* the canonical index of the last component of the origin (the raw index, *)
(* with bit 31 set when hardened), or 0 when there is no origin, no        *)
(* component, or no index in the last component.                           *)
(***************************************************************************)
ExpectedIndexBytes(e) ==
    IF \/ is_master(e)
       \/ e.origin = None
       \/ Len(e.origin[1].components) = 0
       \/ e.origin[1].components[Len(e.origin[1].components)].index = None
    THEN <<0, 0, 0, 0>>
    ELSE LET c == e.origin[1].components[Len(e.origin[1].components)]
         IN <<IF c.hardened THEN 128 ELSE 0, 0, c.index[1] \div 256, c.index[1] % 256>>

C8_ChildIndex ==
    op = "get_bip32_key" =>
        /\ ret.kind = "string"
        /\ SubSeq(ret.v, 10, 13) = ExpectedIndexBytes(hdkey[1])

(***************************************************************************)
(* C2.  Master branch: for a master entity with key and chain code,        *)
(* whatever its other fields hold, to_cbor returns a map with exactly the  *)
(* keys 1, 3 and 4: true, the key bytes and the chain-code bytes.          *)
(***************************************************************************)
C2_MasterBranchExclusive ==
    (op = "to_cbor" /\ is_master(hdkey[1]) /\ IsSome(hdkey[1].key)
        /\ IsSome(hdkey[1].chain_code)) =>
        /\ ret.kind = "value"
        /\ ret.v.t = "map"
        /\ DOMAIN ret.v.v = {1, 3, 4}
        /\ ret.v.v[1] = VBool(TRUE)
        /\ ret.v.v[3] = VBytes(hdkey[1].key[1])
        /\ ret.v.v[4] = VBytes(hdkey[1].chain_code[1])

\* a master entity that has a name, an origin and children was encoded
C2_Witness ==
    /\ op = "to_cbor"
    /\ is_master(hdkey[1])
    /\ IsSome(hdkey[1].name)
    /\ IsSome(hdkey[1].origin)
    /\ IsSome(hdkey[1].children)
    /\ ret.kind = "value"

(***************************************************************************)
(* C7.  Payload layout: when the key, if present, has 33 bytes and the     *)
(* chain code, if present, 32, the payload get_bip32_key hands to the      *)
(* base58-check encoder has 78 bytes: version (4), depth (1), parent       *)
(* fingerprint (4), child index (4), chain code (32), key (33), an absent  *)
(* fingerprint being 4 zero bytes, an absent chain code 32 and an absent   *)
(* key 33.                                                                 *)
(***************************************************************************)
C7_PayloadLayout ==
    (/\ op = "get_bip32_key"
     /\ ret.kind = "string"
     /\ IsSome(hdkey[1].key) => Len(hdkey[1].key[1]) = 33
     /\ IsSome(hdkey[1].chain_code) => Len(hdkey[1].chain_code[1]) = 32) =>
        /\ Len(ret.v) = 78
        /\ SubSeq(ret.v, 6, 9) = UnwrapOr(hdkey[1].parent_fingerprint, Zeros(4))
        /\ SubSeq(ret.v, 14, 45) = UnwrapOr(hdkey[1].chain_code, Zeros(32))
        /\ SubSeq(ret.v, 46, 78) = UnwrapOr(hdkey[1].key, Zeros(33))

(***************************************************************************)
(* C9.  Version bytes: the first four bytes of the payload are 0488ADE4    *)
(* when the entity is master, or is not master and is_private_key is true, *)
(* and 0488B21E otherwise; and replacing use_info by any other coin info,  *)
(* or by none, leaves the whole result of get_bip32_key unchanged.         *)
(***************************************************************************)
C9_VersionSelection ==
    op = "get_bip32_key" =>
        /\ ret.kind = "string" =>
              SubSeq(ret.v, 1, 4) =
                 IF is_master(hdkey[1]) \/ hdkey[1].is_private_key = Some(TRUE)
                 THEN <<4, 136, 173, 228>> ELSE <<4, 136, 178, 30>>
        /\ \A u \in Opt(CoinInfos \cup OtherCoinInfos) :
              get_bip32_key([hdkey[1] EXCEPT !.use_info = u]) = ret

\* a master entity with is_private_key false and a test-net use_info was
\* serialized with the private version
C9_Witness ==
    /\ op = "get_bip32_key"
    /\ is_master(hdkey[1])
    /\ hdkey[1].is_private_key = Some(FALSE)
    /\ hdkey[1].use_info = Some(TestNetCoinInfo)
    /\ ret.kind = "string"
    /\ SubSeq(ret.v, 1, 4) = <<4, 136, 173, 228>>

====
